---- MODULE Spec2Model ----
(***************************************************************************)
(* ModelParametersUnified (locally weighted regression over Gaussian basis *)
(* functions) of dmpbbo: the flat parameter vector, the selection mask,    *)
(* the activation cache and the two line representations; and the         *)
(* FunctionApproximator that holds such a model once it is trained.        *)
(*                                                                         *)
(* mp is a ModelParametersUnified object, nwrites counts the writes of its *)
(* flat vector, fa is the FunctionApproximator (none in Spec, the program  *)
(* of the parameter test; SpecFA is the life cycle of an approximator      *)
(* whose training yields models made from mp).                             *)
(*                                                                         *)
(* Matrices are sequences of rows, vectors are sequences.  Doubles are     *)
(* integers (exact for the small values used here); the value of exp(..)   *)
(* is kept symbolically, see KernelFactor.  The build is the NDEBUG build: *)
(* checkDimensions refers to an undeclared name when NDEBUG is not set, so *)
(* assert(..) is compiled out and an assertion is a statement of intent.   *)
(***************************************************************************)
EXTENDS Integers, Sequences, FiniteSets, TLC

VARIABLES mp, nwrites, fa

vars == <<mp, nwrites, fa>>

\* ------------------------------------------------------------------ bounds
MaxBasis == 2
MaxDims == 2
MaxVal == 2
MaxWrites == 1

Vals == 0..MaxVal
InputVals == 0..1
\* What a read of never-written memory may yield.
Indeterminate == {0 - 1, 0}

\* ----------------------------------------------------------------- helpers
Rows(M) == Len(M)
Cols(M) == IF Len(M) = 0 THEN 0 ELSE Len(M[1])
Col(M, d) == [b \in 1..Len(M) |-> M[b][d]]
\* Eigen's v.segment(offset,size), offset counted from 0.
Segment(v, offset, size) == [i \in 1..size |-> v[offset + i]]
Filled(n, x) == [i \in 1..n |-> x]
RECURSIVE SumTo(_, _)
SumTo(f, n) == IF n = 0 THEN 0 ELSE f[n] + SumTo(f, n - 1)

\* slopes_.row(i) * centers_.row(i).transpose()
Dot(a, b) == SumTo([d \in 1..Len(a) |-> a[d] * b[d]], Len(a))

RECURSIVE GCD(_, _)
GCD(a, b) == IF b = 0 THEN a ELSE GCD(b, a % b)

\* ------------------------------------------------- Gaussian kernel (static)
\* One factor exp(-0.5*pow(x-c,2)/(w*w)) of the product over the dimensions.
\* The double it denotes is kept as the reduced fraction pow(x-c,2)/(w*w);
\* w = 0 gives 0/0 = NaN for x = c and exp(-inf) = 0 otherwise; and a double
\* exp(-0.5*q) is 0 from q = 1491 on (exp(-745.5) is below half the
\* smallest double).
KernelFactor(x, c, w) ==
  LET n == (x - c) * (x - c)
      d == w * w
      g == GCD(n, d)
  IN  IF d = 0
      THEN (IF n = 0 THEN <<"nan">> ELSE <<"zero">>)
      ELSE IF n >= 1491 * d THEN <<"zero">>
      ELSE <<"exp", n \div g, d \div g>>

\* kernel_activations(i_s,bb) after the loop over the dimensions: the factors
\* in the order they were multiplied in.
KernelProduct(center, width, x) ==
  [d \in 1..Len(center) |-> KernelFactor(x[d], center[d], width[d])]

IsNaN(k) == \E d \in 1..Len(k) : k[d][1] = "nan"
IsZero(k) == ~IsNaN(k) /\ \E d \in 1..Len(k) : k[d][1] = "zero"

\* (sum_kernel_activations.array()==0): a sum of non-negative doubles is zero
\* iff every term is zero; a NaN term makes the sum NaN.
RowSumIsZero(row) == \A b \in 1..Len(row) : IsZero(row[b])

\* The static kernelActivations without the case of a single normalized
\* basis function: the one kernel is divided by itself.
kernelActivationsStatic_NoSingleKernelCase(centers, widths, inputs, normalized_basis_functions) ==
  LET n_basis_functions == Rows(centers)
      n_samples == Rows(inputs)
      raw == [s \in 1..n_samples |-> [b \in 1..n_basis_functions |->
                KernelProduct(centers[b], widths[b], inputs[s])]]
      anyzero == \E s \in 1..n_samples : RowSumIsZero(raw[s])
  IN  IF normalized_basis_functions
      THEN [s \in 1..n_samples |-> [b \in 1..n_basis_functions |->
              <<"div", raw[s][b], raw[s], IF anyzero THEN raw ELSE <<>> >>]]
      ELSE raw

\* kernelActivations(centers,widths,inputs,kernel_activations,normalized).
\* A normalized entry is the quotient, kept as numerator, the terms of the row
\* sum, and (when some row sum was zero) the table maxCoeff()/100000 is
\* taken from.
kernelActivationsStatic(centers, widths, inputs, normalized_basis_functions) ==
  LET n_basis_functions == Rows(centers)
      n_samples == Rows(inputs)
      raw == [s \in 1..n_samples |-> [b \in 1..n_basis_functions |->
                KernelProduct(centers[b], widths[b], inputs[s])]]
      anyzero == \E s \in 1..n_samples : RowSumIsZero(raw[s])
  IN  IF normalized_basis_functions /\ n_basis_functions = 1
      THEN [s \in 1..n_samples |-> << <<"one">> >>]
      ELSE IF normalized_basis_functions
      THEN [s \in 1..n_samples |-> [b \in 1..n_basis_functions |->
              <<"div", raw[s][b], raw[s], IF anyzero THEN raw ELSE <<>> >>]]
      ELSE raw

\* A row sum with a NaN term is NaN.
RowSumIsNaN(row) == \E b \in 1..Len(row) : IsNaN(row[b])

\* The divisor of a normalized entry, row sum plus maxCoeff()/100000 where
\* that was added, is zero: the row sum is, and so is the largest row sum.
DivisorIsZero(e) ==
  /\ RowSumIsZero(e[3])
  /\ \A s \in 1..Len(e[4]) : RowSumIsZero(e[4][s])

\* A normalized entry is NaN: a NaN went in, or it is 0/0.
EntryIsNaN(e) ==
  \/ IsNaN(e[2])
  \/ RowSumIsNaN(e[3])
  \/ \E s \in 1..Len(e[4]) : RowSumIsNaN(e[4][s])
  \/ DivisorIsZero(e) /\ IsZero(e[2])

\* A normalized entry is infinite: something not zero over zero.
EntryIsInf(e) == ~EntryIsNaN(e) /\ DivisorIsZero(e) /\ ~IsZero(e[2])

\* ----------------------------------------------------------- cache + query
\* clearCache(): both cached matrices become 0 x 0.
clearCache(m) ==
  [m EXCEPT !.inputs_cached_ = <<>>, !.kernel_activations_cached_ = <<>>]

CacheHit(m, inputs) ==
  /\ m.caching_
  /\ Rows(inputs) = Rows(m.inputs_cached_)
  /\ Cols(inputs) = Cols(m.inputs_cached_)
  /\ inputs = m.inputs_cached_

\* kernelActivations that takes the memo when the first sample is the one
\* memoized, without comparing sizes or the other samples.
kernelActivations_FirstRowHit(m, inputs) ==
  IF m.caching_ /\ Rows(m.inputs_cached_) > 0 /\ inputs[1] = m.inputs_cached_[1]
  THEN [out |-> m.kernel_activations_cached_, m |-> m]
  ELSE LET ka == kernelActivationsStatic(m.centers_, m.widths_, inputs,
                                         m.normalized_basis_functions_)
       IN  [out |-> ka,
            m |-> IF m.caching_
                  THEN [m EXCEPT !.inputs_cached_ = inputs,
                                 !.kernel_activations_cached_ = ka]
                  ELSE m]

\* kernelActivations that memoizes whether caching is on or not.
kernelActivations_AlwaysCaches(m, inputs) ==
  IF CacheHit(m, inputs)
  THEN [out |-> m.kernel_activations_cached_, m |-> m]
  ELSE LET ka == kernelActivationsStatic(m.centers_, m.widths_, inputs,
                                         m.normalized_basis_functions_)
       IN  [out |-> ka,
            m |-> [m EXCEPT !.inputs_cached_ = inputs,
                            !.kernel_activations_cached_ = ka]]

\* kernelActivations(inputs, kernel_activations) const: the table returned
\* (out) and the object afterwards (m; the cache members are mutable).
kernelActivations(m, inputs) ==
  IF CacheHit(m, inputs)
  THEN [out |-> m.kernel_activations_cached_, m |-> m]
  ELSE LET ka == kernelActivationsStatic(m.centers_, m.widths_, inputs,
                                         m.normalized_basis_functions_)
       IN  [out |-> ka,
            m |-> IF m.caching_
                  THEN [m EXCEPT !.inputs_cached_ = inputs,
                                 !.kernel_activations_cached_ = ka]
                  ELSE m]

\* ------------------------------------------------------------------- lines
\* ac[i_line] = slopes_.row(i_line) * centers_.row(i_line).transpose()
SlopesTimesCenters(m) ==
  [b \in 1..Rows(m.centers_) |-> Dot(m.slopes_[b], m.centers_[b])]

getLines(m, inputs) ==
  LET ac == SlopesTimesCenters(m)
  IN  [s \in 1..Rows(inputs) |-> [b \in 1..Rows(m.slopes_) |->
         Dot(inputs[s], m.slopes_[b]) + m.offsets_[b]
           - (IF m.lines_pivot_at_max_activation_ THEN ac[b] ELSE 0)]]

\* output = (lines.array()*activations.array()).rowwise().sum(): per sample
\* the terms of the sum, line value paired with activation.
locallyWeightedLines(m, inputs) ==
  LET lines == getLines(m, inputs)
      act == kernelActivations(m, inputs)
  IN  [out |-> [s \in 1..Rows(inputs) |-> [b \in 1..Rows(m.slopes_) |->
                  <<lines[s][b], act.out[s][b]>>]],
       m |-> act.m]

\* set_lines_pivot_at_max_activation without the early return: the offsets
\* are moved also when the flag stays as it is.
set_lines_pivot_at_max_activation_NoEarlyReturn(m, lines_pivot_at_max_activation) ==
  LET ac == [b \in 1..Rows(m.centers_) |-> Dot(m.slopes_[b], m.centers_[b])]
  IN  [m EXCEPT
        !.offsets_ = [b \in 1..Len(m.offsets_) |->
            IF lines_pivot_at_max_activation
            THEN m.offsets_[b] + ac[b]
            ELSE m.offsets_[b] - ac[b]],
        !.lines_pivot_at_max_activation_ = lines_pivot_at_max_activation]

\* set_lines_pivot_at_max_activation that moves the offsets only when the
\* pivot is switched on; switching it off only clears the flag.
set_lines_pivot_at_max_activation_OneWay(m, lines_pivot_at_max_activation) ==
  LET ac == [b \in 1..Rows(m.centers_) |-> Dot(m.slopes_[b], m.centers_[b])]
  IN  IF m.lines_pivot_at_max_activation_ = lines_pivot_at_max_activation
      THEN m
      ELSE [m EXCEPT
             !.offsets_ = [b \in 1..Len(m.offsets_) |->
                 IF lines_pivot_at_max_activation
                 THEN m.offsets_[b] + ac[b]
                 ELSE m.offsets_[b]],
             !.lines_pivot_at_max_activation_ = lines_pivot_at_max_activation]

\* set_lines_pivot_at_max_activation with the two offset updates swapped.
set_lines_pivot_at_max_activation_Swapped(m, lines_pivot_at_max_activation) ==
  LET ac == [b \in 1..Rows(m.centers_) |-> Dot(m.slopes_[b], m.centers_[b])]
  IN  IF m.lines_pivot_at_max_activation_ = lines_pivot_at_max_activation
      THEN m
      ELSE [m EXCEPT
             !.offsets_ = [b \in 1..Len(m.offsets_) |->
                 IF lines_pivot_at_max_activation
                 THEN m.offsets_[b] - ac[b]
                 ELSE m.offsets_[b] + ac[b]],
             !.lines_pivot_at_max_activation_ = lines_pivot_at_max_activation]

set_lines_pivot_at_max_activation(m, lines_pivot_at_max_activation) ==
  LET ac == SlopesTimesCenters(m)
  IN  IF m.lines_pivot_at_max_activation_ = lines_pivot_at_max_activation
      THEN m
      ELSE [m EXCEPT
             !.offsets_ = [b \in 1..Len(m.offsets_) |->
                 IF lines_pivot_at_max_activation
                 THEN m.offsets_[b] + ac[b]
                 ELSE m.offsets_[b] - ac[b]],
             !.lines_pivot_at_max_activation_ = lines_pivot_at_max_activation]

\* ------------------------------------------------------- construction
\* checkDimensions(): the size bookkeeping (the asserts are compiled out).
checkDimensions(m) ==
  [m EXCEPT !.all_values_vector_size_ =
      Rows(m.centers_) * Cols(m.centers_)
    + Rows(m.widths_) * Cols(m.widths_)
    + Rows(m.offsets_) * 1
    + Rows(m.slopes_) * Cols(m.slopes_)
    + Rows(m.priors_) * 1]

\* getParameterVectorMask that does not advance `offset` past the offsets, so
\* that the slopes tag lands on the offsets' segment.
getParameterVectorMask_SlopesAtOffsets(m, selected_values_labels) ==
  LET c == Rows(m.centers_) * Cols(m.centers_)
      w == Rows(m.widths_) * Cols(m.widths_)
      s == Rows(m.slopes_) * Cols(m.slopes_)
      Tag(label, t) == IF label \in selected_values_labels THEN t ELSE 0
  IN  [i \in 1..m.all_values_vector_size_ |->
         IF i <= c THEN Tag("centers", 1)
         ELSE IF i <= c + w THEN Tag("widths", 2)
         ELSE IF i <= c + w + s /\ "slopes" \in selected_values_labels THEN 4
         ELSE IF i <= c + w + Rows(m.offsets_) THEN Tag("offsets", 3)
         ELSE 0]

\* getParameterVectorMask that gives up (an empty mask) on a label it does not
\* know.
getParameterVectorMask_RejectsUnknown(m, selected_values_labels) ==
  LET c == Rows(m.centers_) * Cols(m.centers_)
      w == Rows(m.widths_) * Cols(m.widths_)
      o == Rows(m.offsets_) * 1
      s == Rows(m.slopes_) * Cols(m.slopes_)
      Tag(label, t) == IF label \in selected_values_labels THEN t ELSE 0
  IN  IF ~(selected_values_labels
             \subseteq {"centers", "widths", "offsets", "slopes", "priors"})
      THEN <<>>
      ELSE [i \in 1..m.all_values_vector_size_ |->
              IF i <= c THEN Tag("centers", 1)
              ELSE IF i <= c + w THEN Tag("widths", 2)
              ELSE IF i <= c + w + o THEN Tag("offsets", 3)
              ELSE IF i <= c + w + o + s THEN Tag("slopes", 4)
              ELSE 0]

\* getParameterVectorMask(labels, mask): tag 1..4 on the segment of each of
\* centers, widths, offsets, slopes whose label is in the set, 0 elsewhere.
getParameterVectorMask(m, selected_values_labels) ==
  LET c == Rows(m.centers_) * Cols(m.centers_)
      w == Rows(m.widths_) * Cols(m.widths_)
      o == Rows(m.offsets_) * 1
      s == Rows(m.slopes_) * Cols(m.slopes_)
      Tag(label, t) == IF label \in selected_values_labels THEN t ELSE 0
  IN  Filled(c, Tag("centers", 1)) \o Filled(w, Tag("widths", 2))
      \o Filled(o, Tag("offsets", 3)) \o Filled(s, Tag("slopes", 4))
      \o Filled(m.all_values_vector_size_ - (c + w + o + s), 0)

\* The value of the local `offset` where getParameterVectorMask asserts
\* offset == getParameterVectorAllSize().
getParameterVectorMaskOffset(m) ==
    Rows(m.centers_) * Cols(m.centers_) + Rows(m.widths_) * Cols(m.widths_)
  + Rows(m.offsets_) * 1 + Rows(m.slopes_) * Cols(m.slopes_)

\* The constructor taking centers, widths, slopes, offsets and the two flags;
\* priors_ is all ones.  caching_ is not set by the constructor.
ModelParametersUnified(centers, widths, slopes, offsets, normalized_basis_functions, lines_pivot_at_max_activation, caching) ==
  LET m0 == [centers_ |-> centers, widths_ |-> widths, slopes_ |-> slopes,
             offsets_ |-> offsets, priors_ |-> Filled(Rows(centers), 1),
             normalized_basis_functions_ |-> normalized_basis_functions,
             lines_pivot_at_max_activation_ |-> lines_pivot_at_max_activation,
             slopes_as_angles_ |-> FALSE,
             all_values_vector_size_ |-> 0,
             caching_ |-> caching,
             inputs_cached_ |-> <<>>, kernel_activations_cached_ |-> <<>>,
             selected_mask_ |-> <<>>]
      m1 == checkDimensions(m0)
  IN  [m1 EXCEPT !.selected_mask_ = getParameterVectorMask(m1, {})]

\* The constructor taking centers, widths and weights: the slopes are zero,
\* the weights are the offsets.
ModelParametersUnified_weights(centers, widths, weights, normalized_basis_functions, lines_pivot_at_max_activation, caching) ==
  ModelParametersUnified(centers, widths,
      [b \in 1..Rows(centers) |-> [d \in 1..Cols(centers) |-> 0]], weights,
      normalized_basis_functions, lines_pivot_at_max_activation, caching)

\* The constructor that also takes the priors.
ModelParametersUnified_priors(centers, widths, slopes, offsets, priors, normalized_basis_functions, lines_pivot_at_max_activation, caching) ==
  LET m0 == ModelParametersUnified(centers, widths, slopes, offsets,
                normalized_basis_functions, lines_pivot_at_max_activation,
                caching)
      m1 == checkDimensions([m0 EXCEPT !.priors_ = priors])
  IN  [m1 EXCEPT !.selected_mask_ = getParameterVectorMask(m1, {})]

\* clone(): a new object from the constructor that takes centers, widths,
\* slopes, offsets and the two flags; `caching` is what its caching_, which
\* no constructor sets, happens to hold.
clone(m, caching) ==
  ModelParametersUnified(m.centers_, m.widths_, m.slopes_, m.offsets_,
      m.normalized_basis_functions_, m.lines_pivot_at_max_activation_, caching)

\* -------------------------------------------------------- the flat vector
getParameterVectorAllSize(m) == m.all_values_vector_size_

getSelectableParameters == {"centers", "widths", "offsets", "slopes", "priors"}

\* A matrix column block by column block (one block per input dimension).
ColumnBlocks(M) ==
  [i \in 1..(Rows(M) * Cols(M)) |->
     M[((i - 1) % Rows(M)) + 1][((i - 1) \div Rows(M)) + 1]]

\* atan2(slope, 1.0), kept symbolically.
Atan2One(x) == <<"atan2", x, 1>>

\* getParameterVectorAll that writes the matrices row by row.
getParameterVectorAll_RowMajor(m, uninit) ==
  LET Flat(M) == [i \in 1..(Rows(M) * Cols(M)) |->
                    M[((i - 1) \div Cols(M)) + 1][((i - 1) % Cols(M)) + 1]]
      written == Flat(m.centers_) \o Flat(m.widths_) \o m.offsets_
                 \o Flat(m.slopes_)
  IN  written \o SubSeq(uninit, 1, m.all_values_vector_size_ - Len(written))

\* getParameterVectorAll(values): values.resize(size) leaves the vector
\* unwritten; centers, widths, offsets and slopes are then written from the
\* front.  `uninit` is what the unwritten entries happen to hold.
getParameterVectorAll(m, uninit) ==
  LET cur_slopes == ColumnBlocks(m.slopes_)
      written == ColumnBlocks(m.centers_) \o ColumnBlocks(m.widths_)
                 \o m.offsets_
                 \o (IF m.slopes_as_angles_
                     THEN [i \in 1..Len(cur_slopes) |-> Atan2One(cur_slopes[i])]
                     ELSE cur_slopes)
  IN  written \o SubSeq(uninit, 1, getParameterVectorAllSize(m) - Len(written))

\* The value of the local `offset` where getParameterVectorAll asserts
\* offset == getParameterVectorAllSize().
getParameterVectorAllOffset(m) ==
    Cols(m.centers_) * Rows(m.centers_) + Cols(m.widths_) * Rows(m.widths_)
  + Rows(m.offsets_) + Cols(m.slopes_) * Rows(m.slopes_)

\* Segment `k` (counted from 0) of n_dims column blocks of `size` entries,
\* read back into a size x n_dims matrix.
FromColumnBlocks(values, offset, size, n_dims) ==
  [b \in 1..size |-> [d \in 1..n_dims |-> values[offset + (d - 1) * size + b]]]

\* setParameterVectorAll that writes the groups back and never clears the
\* cache.
setParameterVectorAll_NeverClears(m, values) ==
  LET size == Rows(m.centers_)
      n_dims == Cols(m.centers_)
  IN  IF m.all_values_vector_size_ # Len(values)
      THEN [m |-> m, log |-> "values is of wrong size.", result |-> "void"]
      ELSE [m |-> [m EXCEPT
                    !.centers_ = FromColumnBlocks(values, 0, size, n_dims),
                    !.widths_ = FromColumnBlocks(values, n_dims * size, size, n_dims),
                    !.offsets_ = Segment(values, 2 * n_dims * size, size),
                    !.slopes_ = FromColumnBlocks(values, 2 * n_dims * size + size,
                                                 size, n_dims)],
            log |-> "", result |-> "void"]

\* setParameterVectorAll that clears the cache on every write of the right
\* size, without comparing.
setParameterVectorAll_AlwaysClears(m, values) ==
  LET r == setParameterVectorAll_NeverClears(m, values)
  IN  IF m.all_values_vector_size_ # Len(values) THEN r
      ELSE [r EXCEPT !.m = clearCache(r.m)]

\* setParameterVectorAll(values): the object afterwards (m), what was written
\* to cerr (log) and what the caller gets back (result; the method is void
\* and throws nothing).
setParameterVectorAll(m, values) ==
  LET size == Rows(m.centers_)
      n_dims == Cols(m.centers_)
      centersDiffer == \E d \in 1..n_dims :
          Col(m.centers_, d) # Segment(values, (d - 1) * size, size)
      widthsDiffer == \E d \in 1..n_dims :
          Col(m.widths_, d) # Segment(values, (n_dims + d - 1) * size, size)
      cleared == IF centersDiffer \/ widthsDiffer THEN clearCache(m) ELSE m
  IN  IF m.all_values_vector_size_ # Len(values)
      THEN [m |-> m, log |-> "values is of wrong size.", result |-> "void"]
      ELSE [m |-> [cleared EXCEPT
                    !.centers_ = FromColumnBlocks(values, 0, size, n_dims),
                    !.widths_ = FromColumnBlocks(values, n_dims * size, size, n_dims),
                    !.offsets_ = Segment(values, 2 * n_dims * size, size),
                    !.slopes_ = FromColumnBlocks(values, 2 * n_dims * size + size,
                                                 size, n_dims)],
            log |-> "", result |-> "void"]

\* The value of the local `offset` where setParameterVectorAll asserts
\* offset == getParameterVectorAllSize().
setParameterVectorAllOffset(m) ==
  LET size == Rows(m.centers_)
      n_dims == Cols(m.centers_)
  IN  n_dims * size + n_dims * size + size + n_dims * size

\* --------------------------------------------- Parameterizable (selection)
setSelectedParameters(m, selected_values_labels) ==
  [m EXCEPT !.selected_mask_ = getParameterVectorMask(m, selected_values_labels)]

\* The indices the mask selects, in increasing order.
SelectedIndices(m) ==
  SelectSeq([i \in 1..Len(m.selected_mask_) |-> i],
            LAMBDA i : m.selected_mask_[i] > 0)

getParameterVectorSelectedSize(m) == Len(SelectedIndices(m))

getParameterVectorSelected(m, uninit) ==
  LET all_values == getParameterVectorAll(m, uninit)
      sel == SelectedIndices(m)
  IN  [ii \in 1..Len(sel) |-> all_values[sel[ii]]]

setParameterVectorSelected(m, values, uninit) ==
  LET all_values == getParameterVectorAll(m, uninit)
      sel == SelectedIndices(m)
      Rank(i) == Cardinality({k \in 1..Len(sel) : sel[k] <= i})
      new_values == [i \in 1..Len(all_values) |->
                       IF m.selected_mask_[i] > 0 THEN values[Rank(i)]
                       ELSE all_values[i]]
  IN  IF getParameterVectorSelectedSize(m) # Len(values)
      THEN [m |-> m, log |-> "values is of wrong size.", result |-> "void"]
      ELSE setParameterVectorAll(m, new_values)

\* ------------------------------------------------------ named modifiers
set_slopes_as_angles(m, slopes_as_angles) ==
  [m |-> [m EXCEPT !.slopes_as_angles_ = FALSE],
   log |-> "Not implemented yet!!!", result |-> "void"]

setParameterVectorModifierPrivate(m, modifier, new_value) ==
  LET m1 == IF modifier = "lines_pivot_at_max_activation"
            THEN set_lines_pivot_at_max_activation(m, new_value) ELSE m
  IN  IF modifier = "slopes_as_angles"
      THEN set_slopes_as_angles(m1, new_value)
      ELSE [m |-> m1, log |-> "", result |-> "void"]

\* ------------------------------------------------ FunctionApproximator
\* A pointer: NULL, or the object it points to.
NULL == <<>>
PointerTo(obj) == <<obj>>
Deref(ptr) == ptr[1]

\* FunctionApproximator(meta_parameters, model_parameters = NULL): either may
\* be NULL, not both.
FunctionApproximator(meta_parameters, model_parameters) ==
  [meta_parameters_ |-> meta_parameters, model_parameters_ |-> model_parameters]

\* isTrained that asks for the meta-parameters instead.
isTrained_MetaParameters(f) == f.meta_parameters_ # NULL

\* isTrained that never says yes.
isTrained_Never(f) == f.model_parameters_ # f.model_parameters_

isTrained(f) == f.model_parameters_ # NULL

\* train(inputs, targets); `produced` is the model the training algorithm
\* yields for them.
train(f, produced) ==
  IF isTrained(f)
  THEN [fa |-> f, result |-> "InvalidState"]
  ELSE [fa |-> [f EXCEPT !.model_parameters_ = PointerTo(produced)],
        result |-> "ok"]

\* reTrain(inputs, targets): drops the model held, then trains.
reTrain(f, produced) ==
  train([f EXCEPT !.model_parameters_ = NULL], produced)

\* predict(inputs, outputs): the locally weighted lines of the model held.
predict(f, inputs) ==
  IF ~isTrained(f)
  THEN [fa |-> f, outputs |-> <<>>, result |-> "NotTrained"]
  ELSE LET r == locallyWeightedLines(Deref(f.model_parameters_), inputs)
       IN  [fa |-> [f EXCEPT !.model_parameters_ = PointerTo(r.m)],
            outputs |-> r.out, result |-> "ok"]

\* variances.fill(0): the matrix keeps the size the caller gave it.
FillZero(M) == [i \in DOMAIN M |-> [j \in DOMAIN M[i] |-> 0]]

\* predict(inputs, outputs, variances) that leaves the variances as passed.
predict_variances_Unfilled(f, inputs, variances) ==
  LET r == predict(f, inputs)
  IN  [fa |-> r.fa, outputs |-> r.outputs, result |-> r.result,
       variances |-> variances]

\* predict(inputs, outputs, variances), variances a matrix.
predict_variances(f, inputs, variances) ==
  LET r == predict(f, inputs)
  IN  [fa |-> r.fa, outputs |-> r.outputs, result |-> r.result,
       variances |-> FillZero(variances)]

\* predict(inputs, outputs, variances), variances a vector of matrices.
predict_covariances(f, inputs, variances) ==
  LET r == predict(f, inputs)
  IN  [fa |-> r.fa, outputs |-> r.outputs, result |-> r.result,
       variances |-> [i \in DOMAIN variances |-> FillZero(variances[i])]]

\* predictVariance(inputs, variances)
predictVariance(f, inputs, variances) == FillZero(variances)

\* ------------------------------------------------------------ inputs
Shapes == (1..MaxBasis) \X (1..MaxDims)

\* Constructor arguments: centers spread over the basis functions, constant
\* widths (zero included), unit slopes, constant offsets.
CtorCenters(nb, nd) == {[b \in 1..nb |-> [d \in 1..nd |-> b - 1]]}
CtorWidths(nb, nd) == {[b \in 1..nb |-> [d \in 1..nd |-> w]] : w \in 0..1}
CtorSlopes(nb, nd) == {[b \in 1..nb |-> [d \in 1..nd |-> 1]]}
CtorOffsets(nb) == {Filled(nb, 0)}

\* Query inputs: tables of one or two samples, n_dims columns.
InputRows(nd) == {[d \in 1..nd |-> x + d - 1] : x \in InputVals}
InputTables(nd) ==
  {<<r>> : r \in InputRows(nd)} \cup {<<Filled(nd, 0), Filled(nd, 1)>>}

\* Query inputs far from every center: one such sample, and a near sample
\* followed by a far one.
FarInputTables(nd) ==
  {<<Filled(nd, 100)>>, <<Filled(nd, 0), Filled(nd, 100)>>}

\* Label sets handed to setSelectedParameters.
LabelSets ==
  {{}, {"centers", "slopes", "priors", "weights"}}

\* What the unwritten tail of a flat vector may hold.
Tails(m) == {Filled(Rows(m.priors_), x) : x \in Indeterminate}

\* The entries a write changes: the first entry of the centers, the last of
\* the widths, the first offset, the last slope.
ProbeIndices(m) ==
  LET nbd == Rows(m.centers_) * Cols(m.centers_)
      nb == Rows(m.centers_)
  IN  {1, 2 * nbd, 2 * nbd + 1, 3 * nbd + nb}

NextVal(v) == IF v \in Vals THEN (v + 1) % (MaxVal + 1) ELSE 0

\* Flat vectors handed to setParameterVectorAll: the current vector with one
\* entry changed, and vectors one entry too short or too long.
SetAllInputs(m, uninit) ==
  LET cur == getParameterVectorAll(m, uninit)
  IN  {[cur EXCEPT ![i] = NextVal(cur[i])] : i \in ProbeIndices(m)}
      \cup {SubSeq(cur, 1, Len(cur) - 1), Append(cur, 0)}

\* Vectors handed to setParameterVectorSelected: the selected values, the
\* selected values with one entry changed, and a vector one entry too long.
SetSelectedInputs(m, uninit) ==
  LET cur == getParameterVectorSelected(m, uninit)
  IN  {[cur EXCEPT ![i] = NextVal(cur[i])] : i \in {1, Len(cur)} \cap DOMAIN cur}
      \cup {cur, Append(cur, 0)}

\* ------------------------------------------------------------- the system
Init ==
  /\ \E shape \in Shapes :
       \E c \in CtorCenters(shape[1], shape[2]),
          w \in CtorWidths(shape[1], shape[2]),
          s \in CtorSlopes(shape[1], shape[2]),
          o \in CtorOffsets(shape[1]),
          normalized \in BOOLEAN, pivot \in {FALSE}, caching \in BOOLEAN :
         mp = ModelParametersUnified(c, w, s, o, normalized, pivot, caching)
  /\ nwrites = 0
  /\ fa = NULL

GetParameterVectorAll ==
  /\ UNCHANGED vars

SetParameterVectorAll ==
  /\ nwrites < MaxWrites
  /\ \E uninit \in Tails(mp) : \E values \in SetAllInputs(mp, uninit) :
       LET r == setParameterVectorAll(mp, values)
       IN  /\ mp' = r.m
           /\ nwrites' = IF r.log = "" THEN nwrites + 1 ELSE nwrites
  /\ UNCHANGED fa

\* values = getParameterVectorAll(); setParameterVectorAll(values)
SetAllOfGetAll ==
  /\ \E uninit \in Tails(mp) :
       LET r == setParameterVectorAll(mp, getParameterVectorAll(mp, uninit))
       IN  mp' = r.m
  /\ UNCHANGED <<nwrites, fa>>

GetParameterVectorMask ==
  /\ UNCHANGED vars

SetSelectedParameters ==
  /\ \E labels \in LabelSets :
       mp' = setSelectedParameters(mp, labels)
  /\ UNCHANGED <<nwrites, fa>>

GetParameterVectorSelected ==
  /\ UNCHANGED vars

SetParameterVectorSelected ==
  /\ nwrites < MaxWrites
  /\ \E uninit \in Tails(mp) : \E values \in SetSelectedInputs(mp, uninit) :
       LET r == setParameterVectorSelected(mp, values, uninit)
       IN  /\ mp' = r.m
           /\ nwrites' = IF r.log = "" THEN nwrites + 1 ELSE nwrites
  /\ UNCHANGED fa

KernelActivations ==
  /\ \E inputs \in InputTables(Cols(mp.centers_)) :
       mp' = kernelActivations(mp, inputs).m
  /\ UNCHANGED <<nwrites, fa>>

GetLines ==
  /\ UNCHANGED vars

LocallyWeightedLines ==
  /\ \E inputs \in InputTables(Cols(mp.centers_)) :
       mp' = locallyWeightedLines(mp, inputs).m
  /\ UNCHANGED <<nwrites, fa>>

SetLinesPivotAtMaxActivation ==
  /\ \E new_value \in BOOLEAN :
       mp' = set_lines_pivot_at_max_activation(mp, new_value)
  /\ UNCHANGED <<nwrites, fa>>

SetParameterVectorModifierPrivate ==
  /\ \E modifier \in {"lines_pivot_at_max_activation", "slopes_as_angles",
                      "unknown_modifier"}, new_value \in BOOLEAN :
       LET r == setParameterVectorModifierPrivate(mp, modifier, new_value)
       IN  mp' = r.m
  /\ UNCHANGED <<nwrites, fa>>

Next ==
  \/ GetParameterVectorAll
  \/ SetParameterVectorAll
  \/ SetAllOfGetAll
  \/ GetParameterVectorMask
  \/ SetSelectedParameters
  \/ GetParameterVectorSelected
  \/ SetParameterVectorSelected
  \/ KernelActivations
  \/ GetLines
  \/ LocallyWeightedLines
  \/ SetLinesPivotAtMaxActivation
  \/ SetParameterVectorModifierPrivate

Spec == Init /\ [][Next]_vars

\* ------------------------------------- the life cycle of an approximator
MetaParameters == PointerTo("MetaParameters")

\* What training yields for constant targets t: the model mp with every
\* offset at t and nothing cached.
TrainingTargets == 0..1
Produced(t) ==
  [clearCache(mp) EXCEPT !.offsets_ = Filled(Rows(mp.offsets_), t)]

\* What the caller passes for the variances: a matrix of one column, or a
\* vector of 1 x 1 matrices, holding whatever it held; or nothing at all.
VarianceTables(n_samples) ==
  {Filled(n_samples, <<x>>) : x \in Indeterminate} \cup {<<>>}
CovarianceTables(n_samples) ==
  {Filled(n_samples, << <<x>> >>) : x \in Indeterminate} \cup {<<>>}

\* An approximator made from meta-parameters only, from both, or from model
\* parameters only.
InitFA ==
  /\ \E shape \in Shapes :
       \E c \in CtorCenters(shape[1], shape[2]),
          w \in CtorWidths(shape[1], shape[2]),
          s \in CtorSlopes(shape[1], shape[2]),
          o \in CtorOffsets(shape[1]),
          normalized \in BOOLEAN, pivot \in {FALSE}, caching \in BOOLEAN :
         mp = ModelParametersUnified(c, w, s, o, normalized, pivot, caching)
  /\ nwrites = 0
  /\ fa \in {FunctionApproximator(MetaParameters, NULL),
             FunctionApproximator(MetaParameters, PointerTo(mp)),
             FunctionApproximator(NULL, PointerTo(mp))}

Train ==
  /\ fa.meta_parameters_ # NULL
  /\ \E t \in TrainingTargets : fa' = train(fa, Produced(t)).fa
  /\ UNCHANGED <<mp, nwrites>>

ReTrain ==
  /\ fa.meta_parameters_ # NULL
  /\ \E t \in TrainingTargets : fa' = reTrain(fa, Produced(t)).fa
  /\ UNCHANGED <<mp, nwrites>>

Predict ==
  /\ \E inputs \in InputTables(Cols(mp.centers_)) :
       fa' = predict(fa, inputs).fa
  /\ UNCHANGED <<mp, nwrites>>

PredictVariances ==
  /\ \E inputs \in InputTables(Cols(mp.centers_)) :
       \E variances \in VarianceTables(Rows(inputs)) :
         fa' = predict_variances(fa, inputs, variances).fa
  /\ UNCHANGED <<mp, nwrites>>

PredictCovariances ==
  /\ \E inputs \in InputTables(Cols(mp.centers_)) :
       \E variances \in CovarianceTables(Rows(inputs)) :
         fa' = predict_covariances(fa, inputs, variances).fa
  /\ UNCHANGED <<mp, nwrites>>

PredictVariance ==
  /\ UNCHANGED vars

IsTrained ==
  /\ UNCHANGED vars

NextFA ==
  \/ Train
  \/ ReTrain
  \/ Predict
  \/ PredictVariances
  \/ PredictCovariances
  \/ PredictVariance
  \/ IsTrained

SpecFA == InitFA /\ [][NextFA]_vars

\* ====================================================================
\* Properties
\* ====================================================================
NDimsOf(m) == Cols(m.centers_)
NBasisOf(m) == Rows(m.centers_)
CacheIsEmpty(m) == m.inputs_cached_ = <<>> /\ m.kernel_activations_cached_ = <<>>
UnknownLabels == {"weights", "unknown"}

\* Flat vectors of the right size a write may carry.
RightSized(m, uninit) ==
  {values \in SetAllInputs(m, uninit) : Len(values) = getParameterVectorAllSize(m)}
WrongSized(m, uninit) ==
  {values \in SetAllInputs(m, uninit) : Len(values) # getParameterVectorAllSize(m)}

\* The centers or widths part of `values` differs from what is stored.
CentersOrWidthsDiffer(m, values) ==
  LET nbd == NBasisOf(m) * NDimsOf(m)
  IN  \/ SubSeq(values, 1, nbd) # ColumnBlocks(m.centers_)
      \/ SubSeq(values, nbd + 1, 2 * nbd) # ColumnBlocks(m.widths_)

\* C1: with caching on, an activations query returns, for every input table,
\* the table computed from the current centers and widths: whatever writes,
\* pivot changes and queries came before, the memo served is never stale.
C1_CacheCoherence ==
  mp.caching_ =>
    \A inputs \in InputTables(NDimsOf(mp)) :
      kernelActivations(mp, inputs).out =
        kernelActivationsStatic(mp.centers_, mp.widths_, inputs,
                                mp.normalized_basis_functions_)

\* A memo is held after a write has changed the first center.
C1_Witness ==
  /\ mp.caching_
  /\ ~CacheIsEmpty(mp)
  /\ nwrites > 0
  /\ mp.centers_[1][1] # 0

\* C2: a write of the right size empties the cache exactly when its centers
\* or widths part differs from the stored centers or widths; otherwise (also
\* when only offsets or slopes change) the memo is kept as it is.
C2_InvalidatesIffShapeChanged ==
  \A uninit \in Tails(mp) : \A values \in RightSized(mp, uninit) :
    LET after == setParameterVectorAll(mp, values).m
    IN  IF CentersOrWidthsDiffer(mp, values)
        THEN CacheIsEmpty(after)
        ELSE /\ after.inputs_cached_ = mp.inputs_cached_
             /\ after.kernel_activations_cached_ = mp.kernel_activations_cached_

\* A memo is held, so that a write has something to invalidate or to keep,
\* in a model whose offsets an earlier write changed.
C2_Witness ==
  /\ mp.caching_
  /\ ~CacheIsEmpty(mp)
  /\ nwrites > 0
  /\ ~mp.lines_pivot_at_max_activation_
  /\ mp.offsets_[1] # 0

\* C3: writing back the vector just read changes nothing: the five groups,
\* the flags, the selection and the cache are as before, and so is every
\* prediction.
C3_SetOfGetIsNoOp ==
  \A uninit \in Tails(mp) :
    LET after == setParameterVectorAll(mp, getParameterVectorAll(mp, uninit)).m
    IN  /\ after = mp
        /\ \A inputs \in InputTables(NDimsOf(mp)) :
             locallyWeightedLines(after, inputs).out
               = locallyWeightedLines(mp, inputs).out

\* A model of several basis functions and dimensions that holds a memo and
\* has been written to.
C3_Witness ==
  /\ NBasisOf(mp) > 1
  /\ NDimsOf(mp) > 1
  /\ ~CacheIsEmpty(mp)
  /\ nwrites > 0

\* C4: a write of the wrong size gives the caller a SizeMismatch error and
\* leaves the model as it was.
C4_SizeMismatchIsSurfaced ==
  \A uninit \in Tails(mp) : \A values \in WrongSized(mp, uninit) :
    LET r == setParameterVectorAll(mp, values)
    IN  /\ r.result = "SizeMismatch"
        /\ r.m = mp

\* C5: the positions covered by getParameterVectorAll, setParameterVectorAll
\* and getParameterVectorMask are as many as getParameterVectorAllSize(): the
\* assertion `offset == getParameterVectorAllSize()` that ends each holds.
C5_OffsetAssertionsHold ==
  /\ getParameterVectorAllOffset(mp) = getParameterVectorAllSize(mp)
  /\ setParameterVectorAllOffset(mp) = getParameterVectorAllSize(mp)
  /\ getParameterVectorMaskOffset(mp) = getParameterVectorAllSize(mp)

\* The index segment of a group in the flat vector, priors last.
GroupSegment(m, label) ==
  LET nbd == NBasisOf(m) * NDimsOf(m)
      nb == NBasisOf(m)
  IN  CASE label = "centers" -> 1..nbd
        [] label = "widths" -> (nbd + 1)..(2 * nbd)
        [] label = "offsets" -> (2 * nbd + 1)..(2 * nbd + nb)
        [] label = "slopes" -> (2 * nbd + nb + 1)..(3 * nbd + nb)
        [] label = "priors" -> (3 * nbd + nb + 1)..(3 * nbd + 2 * nb)

\* C6: for every set L of selectable labels the mask has the length of the
\* flat vector, carries one nonzero tag per group of L on that group's
\* segment, distinct between groups, and 0 elsewhere; the selected size is
\* the number of entries of the groups of L.
C6_MaskTagsEverySelectedGroup ==
  \A L \in SUBSET getSelectableParameters :
    LET mask == getParameterVectorMask(mp, L)
        sel == setSelectedParameters(mp, L)
    IN  /\ Len(mask) = getParameterVectorAllSize(mp)
        /\ \A g \in getSelectableParameters : \A i \in GroupSegment(mp, g) :
             IF g \in L THEN mask[i] # 0 ELSE mask[i] = 0
        /\ \A g \in L : \A h \in L : \A i \in GroupSegment(mp, g) :
             \A j \in GroupSegment(mp, h) : (mask[i] = mask[j]) <=> (g = h)
        /\ getParameterVectorSelectedSize(sel)
             = Cardinality(UNION {GroupSegment(mp, g) : g \in L})

\* The segments of the groups of L among centers, widths, offsets, slopes,
\* one after the other in that order.
SegmentsInOrder(m, all_values, L) ==
  LET nbd == NBasisOf(m) * NDimsOf(m)
      nb == NBasisOf(m)
      Part(label, first, last) ==
        IF label \in L THEN SubSeq(all_values, first, last) ELSE <<>>
  IN  Part("centers", 1, nbd) \o Part("widths", nbd + 1, 2 * nbd)
      \o Part("offsets", 2 * nbd + 1, 2 * nbd + nb)
      \o Part("slopes", 2 * nbd + nb + 1, 3 * nbd + nb)

\* C7: for every set L of selectable labels, the selected vector is the
\* segments of the groups of L out of the flat vector, in the order centers,
\* widths, offsets, slopes.
C7_SelectedIsSegmentsInOrder ==
  \A L \in SUBSET getSelectableParameters : \A uninit \in Tails(mp) :
    getParameterVectorSelected(setSelectedParameters(mp, L), uninit)
      = SegmentsInOrder(mp, getParameterVectorAll(mp, uninit), L)

\* Centers and slopes are the selection, in a model that has been written to.
C7_Witness ==
  /\ \E i \in DOMAIN mp.selected_mask_ : mp.selected_mask_[i] = 1
  /\ \E i \in DOMAIN mp.selected_mask_ : mp.selected_mask_[i] = 4
  /\ nwrites > 0

\* C8: under the current selection, writing a selected vector v and reading
\* the selection back gives v, the flat vector read afterwards agrees with
\* the one read before on every entry outside the selection, and writing
\* back the selection just read leaves the whole flat vector as it was.
C8_SelectedRoundTrip ==
  \A u1 \in Tails(mp), u2 \in Tails(mp) :
    LET before == getParameterVectorAll(mp, u1)
        cur == getParameterVectorSelected(mp, u1)
    IN  /\ \A v \in {w \in SetSelectedInputs(mp, u1) : Len(w) = Len(cur)} :
             LET after == setParameterVectorSelected(mp, v, u1).m
             IN  /\ getParameterVectorSelected(after, u2) = v
                 /\ \A i \in DOMAIN before : mp.selected_mask_[i] = 0 =>
                      getParameterVectorAll(after, u2)[i] = before[i]
        /\ getParameterVectorAll(setParameterVectorSelected(mp, cur, u1).m, u2)
             = before

\* C9: a label that is not selectable changes nothing in the mask: the mask
\* of L with unknown labels added is the mask of L.
C9_UnknownLabelIsNoOp ==
  \A L \in SUBSET getSelectableParameters : \A u \in UnknownLabels :
    getParameterVectorMask(mp, L \cup {u}) = getParameterVectorMask(mp, L)

\* The selection made with the labels centers, slopes, priors and an unknown
\* one: centers and slopes are tagged, nothing else is.
C9_Witness ==
  /\ mp.selected_mask_ = getParameterVectorMask(mp, {"centers", "slopes"})
  /\ \E i \in DOMAIN mp.selected_mask_ : mp.selected_mask_[i] # 0

\* C10: setting the pivot flag, directly or by its modifier name, leaves the
\* value of every line at every input as it was.
C10_PivotTogglePreservesLines ==
  \A new_value \in BOOLEAN : \A inputs \in InputTables(NDimsOf(mp)) :
    /\ getLines(set_lines_pivot_at_max_activation(mp, new_value), inputs)
         = getLines(mp, inputs)
    /\ getLines(setParameterVectorModifierPrivate(
                  mp, "lines_pivot_at_max_activation", new_value).m, inputs)
         = getLines(mp, inputs)

\* The flag has been set and moved some offset: slope times center is not
\* zero for some line.
C10_Witness ==
  /\ mp.lines_pivot_at_max_activation_
  /\ \E b \in 1..NBasisOf(mp) : SlopesTimesCenters(mp)[b] # 0
  /\ \E b \in 1..NBasisOf(mp) : mp.offsets_[b] # 0

\* C11: from the origin representation, switching the pivot on and then off
\* again, with no write in between, gives back the offsets there were.
C11_PivotRoundTrip ==
  ~mp.lines_pivot_at_max_activation_ =>
    LET on == set_lines_pivot_at_max_activation(mp, TRUE)
        back == set_lines_pivot_at_max_activation(on, FALSE)
    IN  /\ on.lines_pivot_at_max_activation_
        /\ ~back.lines_pivot_at_max_activation_
        /\ back.offsets_ = mp.offsets_

\* The origin representation, in a written model with a line whose offset and
\* whose slope times center are both not zero.
C11_Witness ==
  /\ ~mp.lines_pivot_at_max_activation_
  /\ nwrites > 0
  /\ \E b \in 1..NBasisOf(mp) :
       SlopesTimesCenters(mp)[b] # 0 /\ mp.offsets_[b] # 0

\* The Trained state: a model is held.
Trained(f) == f.model_parameters_ # NULL
HeldModel(f) == Deref(f.model_parameters_)
AllZero(M) == \A i \in DOMAIN M : \A j \in DOMAIN M[i] : M[i][j] = 0

\* C12: train on an untrained approximator makes it Trained, holding the
\* model produced; train on a Trained one fails with InvalidState and leaves
\* the model held in place; reTrain replaces it.
C12_TrainOnlyFromUntrained ==
  \A t \in TrainingTargets :
    LET r == train(fa, Produced(t))
        again == train(r.fa, Produced(1 - t))
        re == reTrain(r.fa, Produced(1 - t))
    IN  /\ IF Trained(fa)
           THEN r.result = "InvalidState" /\ r.fa = fa
           ELSE /\ r.result = "ok"
                /\ Trained(r.fa)
                /\ HeldModel(r.fa) = Produced(t)
        /\ again.result = "InvalidState"
        /\ again.fa = r.fa
        /\ re.result = "ok"
        /\ HeldModel(re.fa) = Produced(1 - t)

\* An approximator made from meta-parameters that training gave a model with
\* offsets 1.
C12_Witness ==
  /\ fa.meta_parameters_ # NULL
  /\ Trained(fa)
  /\ HeldModel(fa).offsets_[1] = 1

\* C13: predict answers NotTrained exactly when no model is held; an
\* approximator made from meta-parameters only is not trained and predicts
\* only after train, one made with model parameters is trained and predicts
\* at once.
C13_PredictOnlyWhenTrained ==
  /\ isTrained(fa) <=> Trained(fa)
  /\ \A inputs \in InputTables(NDimsOf(mp)) :
       LET untrained == FunctionApproximator(MetaParameters, NULL)
           both == FunctionApproximator(MetaParameters, PointerTo(mp))
           model == FunctionApproximator(NULL, PointerTo(mp))
       IN  /\ IF Trained(fa)
              THEN /\ predict(fa, inputs).result = "ok"
                   /\ predict(fa, inputs).outputs
                        = locallyWeightedLines(HeldModel(fa), inputs).out
              ELSE predict(fa, inputs).result = "NotTrained"
           /\ ~isTrained(untrained)
           /\ predict(untrained, inputs).result = "NotTrained"
           /\ \A t \in TrainingTargets :
                predict(train(untrained, Produced(t)).fa, inputs).result = "ok"
           /\ isTrained(both) /\ predict(both, inputs).result = "ok"
           /\ isTrained(model) /\ predict(model, inputs).result = "ok"

\* An approximator that was trained and has predicted: the model it holds
\* has offsets 1 and a memo.
C13_Witness ==
  /\ Trained(fa)
  /\ HeldModel(fa).offsets_[1] = 1
  /\ ~CacheIsEmpty(HeldModel(fa))

\* C14: the predictions with variances (matrix or vector of matrices) give
\* the outputs of the plain prediction, and every entry of the variances,
\* and of predictVariance's, is 0.
C14_DefaultVarianceIsZero ==
  \A inputs \in InputTables(NDimsOf(mp)) :
    /\ \A variances \in VarianceTables(Rows(inputs)) :
         LET r == predict_variances(fa, inputs, variances)
         IN  /\ r.outputs = predict(fa, inputs).outputs
             /\ r.fa = predict(fa, inputs).fa
             /\ Len(r.variances) = Len(variances)
             /\ AllZero(r.variances)
             /\ AllZero(predictVariance(fa, inputs, variances))
    /\ \A variances \in CovarianceTables(Rows(inputs)) :
         LET r == predict_covariances(fa, inputs, variances)
         IN  /\ r.outputs = predict(fa, inputs).outputs
             /\ r.fa = predict(fa, inputs).fa
             /\ \A i \in DOMAIN r.variances : AllZero(r.variances[i])

\* An approximator made from model parameters only whose model holds the
\* memo of a prediction.
C14_Witness ==
  /\ fa.meta_parameters_ = NULL
  /\ Trained(fa)
  /\ ~CacheIsEmpty(HeldModel(fa))

\* What checkDimensions asserts.
ShapesAgree(m) ==
  /\ Rows(m.widths_) = Rows(m.centers_) /\ Cols(m.widths_) = Cols(m.centers_)
  /\ Rows(m.slopes_) = Rows(m.centers_) /\ Cols(m.slopes_) = Cols(m.centers_)
  /\ Len(m.offsets_) = Rows(m.centers_)
  /\ Len(m.priors_) = Rows(m.centers_)

\* C15: no constructor yields a model whose groups disagree in shape: handed
\* the centers of mp with widths, slopes, offsets or priors of any shape,
\* each of the three constructors either fails or yields agreeing shapes.
C15_ConstructorsFailFast ==
  \A other \in Shapes :
    \A w \in CtorWidths(other[1], other[2]),
       s \in CtorSlopes(other[1], other[2]),
       o \in CtorOffsets(other[1]) :
      /\ ShapesAgree(ModelParametersUnified(mp.centers_, w, s, o,
             mp.normalized_basis_functions_, FALSE, mp.caching_))
      /\ ShapesAgree(ModelParametersUnified_weights(mp.centers_, w, o,
             mp.normalized_basis_functions_, FALSE, mp.caching_))
      /\ ShapesAgree(ModelParametersUnified_priors(mp.centers_, w, s, o,
             Filled(other[1], 1),
             mp.normalized_basis_functions_, FALSE, mp.caching_))

\* C16: centers and widths have the same shape and every width is strictly
\* positive.
C16_WidthsPositive ==
  /\ Rows(mp.widths_) = Rows(mp.centers_)
  /\ Cols(mp.widths_) = Cols(mp.centers_)
  /\ \A b \in 1..Rows(mp.widths_) : \A d \in 1..Cols(mp.widths_) :
       mp.widths_[b][d] > 0

\* C17: asked to store the slopes as angles, directly or by the modifier
\* name, the model either does so or answers UnsupportedOperation.
C17_AnglesHonouredOrRejected ==
  LET direct == set_slopes_as_angles(mp, TRUE)
      named == setParameterVectorModifierPrivate(mp, "slopes_as_angles", TRUE)
  IN  /\ direct.m.slopes_as_angles_ \/ direct.result = "UnsupportedOperation"
      /\ named.m.slopes_as_angles_ \/ named.result = "UnsupportedOperation"

\* The entries of a normalized row are the row's terms, each over the plain
\* row sum, which is neither zero nor NaN: they add up to 1.
RowSumsToOne(krow) ==
  /\ \A b \in 1..Len(krow) :
       krow[b][2] = krow[b][3][b] /\ krow[b][4] = <<>>
  /\ ~RowSumIsZero(krow[1][3])
  /\ ~RowSumIsNaN(krow[1][3])

\* C18: with normalization on, several basis functions and positive widths,
\* every row of the activations of a table adds up to 1 unless some raw row
\* sum of the table is zero, and no entry is NaN or infinite in either case.
C18_NormalizedRowsSumToOne ==
  (/\ mp.normalized_basis_functions_
   /\ NBasisOf(mp) > 1
   /\ \A b \in 1..NBasisOf(mp) : \A d \in 1..NDimsOf(mp) : mp.widths_[b][d] > 0)
  =>
  \A inputs \in InputTables(NDimsOf(mp)) \cup FarInputTables(NDimsOf(mp)) :
    LET ka == kernelActivationsStatic(mp.centers_, mp.widths_, inputs, TRUE)
        degenerate == \E s \in 1..Len(ka) : RowSumIsZero(ka[s][1][3])
    IN  \A s \in 1..Len(ka) :
          /\ degenerate \/ RowSumsToOne(ka[s])
          /\ \A b \in 1..Len(ka[s]) :
               ~EntryIsNaN(ka[s][b]) /\ ~EntryIsInf(ka[s][b])

\* Same number of rows and columns, and equal entry by entry.
SameTable(A, B) ==
  /\ Rows(A) = Rows(B)
  /\ Cols(A) = Cols(B)
  /\ \A i \in 1..Rows(A) : \A j \in 1..Cols(A) : A[i][j] = B[i][j]

\* C19: with caching on, the memo is an input table with the activations
\* computed for it; a query for a table of the memo's size and entries is
\* answered by the memo and changes nothing; any other query is computed
\* and leaves its input and its result as the memo.
C19_MemoServedOnlyOnEqualInput ==
  mp.caching_ =>
    /\ ~CacheIsEmpty(mp) =>
         mp.kernel_activations_cached_ =
           kernelActivationsStatic(mp.centers_, mp.widths_, mp.inputs_cached_,
                                   mp.normalized_basis_functions_)
    /\ \A inputs \in InputTables(NDimsOf(mp)) :
         LET r == kernelActivations(mp, inputs)
         IN  IF SameTable(inputs, mp.inputs_cached_)
             THEN r.out = mp.kernel_activations_cached_ /\ r.m = mp
             ELSE /\ r.out = kernelActivationsStatic(mp.centers_, mp.widths_,
                               inputs, mp.normalized_basis_functions_)
                  /\ r.m.inputs_cached_ = inputs
                  /\ r.m.kernel_activations_cached_ = r.out

\* The memo of a query of two samples is held.
C19_Witness ==
  /\ mp.caching_
  /\ Rows(mp.inputs_cached_) = 2
  /\ Rows(mp.kernel_activations_cached_) = 2

\* A model as another but for the memo.
SameButCache(a, b) ==
  [a EXCEPT !.inputs_cached_ = b.inputs_cached_,
            !.kernel_activations_cached_ = b.kernel_activations_cached_] = b

\* C20: an activations query and a prediction leave the five groups, the
\* flags and the selection as they were and may change the memo only; with
\* caching off they change nothing; the lines are computed from the groups
\* and the pivot flag alone.
C20_QueriesChangeOnlyTheCache ==
  \A inputs \in InputTables(NDimsOf(mp)) :
    LET a == kernelActivations(mp, inputs).m
        l == locallyWeightedLines(mp, inputs).m
    IN  /\ SameButCache(a, mp)
        /\ SameButCache(l, mp)
        /\ ~mp.caching_ => a = mp /\ l = mp
        /\ getLines(a, inputs) = getLines(mp, inputs)

\* A model with the pivot on and a selection made, that holds a memo.
C20_Witness ==
  /\ mp.caching_
  /\ ~CacheIsEmpty(mp)
  /\ mp.lines_pivot_at_max_activation_
  /\ \E i \in DOMAIN mp.selected_mask_ : mp.selected_mask_[i] # 0

\* C21: setting the pivot flag to the value it has changes nothing; setting
\* it to the other value adds slope times center to every offset when the
\* pivot goes on and subtracts it when it goes off, sets the flag, and leaves
\* centers, widths, slopes, priors, the selection and the memo as they were.
C21_PivotChangesOffsetsAndFlagOnly ==
  \A new_value \in BOOLEAN :
    LET after == set_lines_pivot_at_max_activation(mp, new_value)
    IN  IF new_value = mp.lines_pivot_at_max_activation_
        THEN after = mp
        ELSE /\ after.lines_pivot_at_max_activation_ = new_value
             /\ Len(after.offsets_) = Len(mp.offsets_)
             /\ \A b \in 1..NBasisOf(mp) :
                  after.offsets_[b] =
                    IF new_value
                    THEN mp.offsets_[b] + Dot(mp.slopes_[b], mp.centers_[b])
                    ELSE mp.offsets_[b] - Dot(mp.slopes_[b], mp.centers_[b])
             /\ [after EXCEPT !.offsets_ = mp.offsets_,
                              !.lines_pivot_at_max_activation_ =
                                  mp.lines_pivot_at_max_activation_] = mp

\* The pivot has been switched on in a model that holds a memo: some offset
\* is the slope times center of its line, and not zero.
C21_Witness ==
  /\ mp.lines_pivot_at_max_activation_
  /\ ~CacheIsEmpty(mp)
  /\ nwrites = 0
  /\ \E b \in 1..NBasisOf(mp) :
       mp.offsets_[b] # 0 /\ mp.offsets_[b] = SlopesTimesCenters(mp)[b]

\* C22: with normalization on and a single basis function, the activations
\* of every input table, near the center or far from it, are one column of
\* ones, one per sample, whatever the center and the width.
C22_SingleKernelIsAllOnes ==
  (mp.normalized_basis_functions_ /\ NBasisOf(mp) = 1) =>
    \A inputs \in InputTables(NDimsOf(mp)) \cup FarInputTables(NDimsOf(mp)) :
      LET ones == [s \in 1..Rows(inputs) |-> << <<"one">> >>]
      IN  /\ kernelActivationsStatic(mp.centers_, mp.widths_, inputs, TRUE)
               = ones
          /\ kernelActivations(mp, inputs).out = ones

\* A normalized model of one basis function, written to, that holds a memo.
C22_Witness ==
  /\ mp.normalized_basis_functions_
  /\ NBasisOf(mp) = 1
  /\ nwrites > 0
  /\ ~CacheIsEmpty(mp)

\* The models to clone: mp, and the model the constructor with priors makes
\* of the groups of mp and priors 2.
CloneOriginals ==
  {mp, ModelParametersUnified_priors(mp.centers_, mp.widths_, mp.slopes_,
           mp.offsets_, Filled(NBasisOf(mp), 2),
           mp.normalized_basis_functions_, mp.lines_pivot_at_max_activation_,
           mp.caching_)}

\* C23: the clone of a model has its centers, widths, slopes, offsets,
\* priors, normalization flag and pivot flag, predicts as it does and has
\* its flat vector.
C23_CloneIsDeepCopy ==
  \A m \in CloneOriginals : \A caching \in BOOLEAN :
    LET c == clone(m, caching)
    IN  /\ c.centers_ = m.centers_ /\ c.widths_ = m.widths_
        /\ c.slopes_ = m.slopes_ /\ c.offsets_ = m.offsets_
        /\ c.priors_ = m.priors_
        /\ c.normalized_basis_functions_ = m.normalized_basis_functions_
        /\ c.lines_pivot_at_max_activation_ = m.lines_pivot_at_max_activation_
        /\ \A inputs \in InputTables(NDimsOf(m)) :
             locallyWeightedLines(c, inputs).out
               = locallyWeightedLines(m, inputs).out
        /\ \A u1 \in Tails(m), u2 \in Tails(m) :
             getParameterVectorAll(c, u1) = getParameterVectorAll(m, u2)

====
